---- MODULE Spec2Model ----
(***************************************************************************)
(* Model of MbsClient (src/mbsclient.cpp, src/mbsclient.h): the client's   *)
(* members, the ingestion worker (eventReceiver), the file discoverer      *)
(* (newFileSeeker) and the public calls connect, disconnect, getEventData, *)
(* clearEventBuffer and setBufferLimit.                                    *)
(*                                                                         *)
(* Strings are sequences of one-character strings.  The MBS adapter        *)
(* (f_evt_control, f_evt_get_open, f_evt_get_event, f_evt_get_subevent,    *)
(* f_evt_get_close) and fs::exists are the environment: their results are  *)
(* chosen nondeterministically.  Diagnostic output (std::cout, the `mess`  *)
(* counter that only limits it) is not modelled.                           *)
(***************************************************************************)
EXTENDS Integers, Sequences, FiniteSets, TLC

(***************************************************************************)
(* Bounds of the model.                                                    *)
(***************************************************************************)
\* raw events the adapter delivers with GETEVT__SUCCESS in one behaviour
MaxEvents == 2
\* connect calls that get as far as opening a source in one behaviour
MaxConnects == 2
\* raw events, read errors and connect calls together in one behaviour
MaxWork == 3
\* longest file list kept (connect(string) and the discoverer only append)
MaxFiles == 3
\* read errors the adapter reports in one behaviour
MaxFatal == 1

(***************************************************************************)
(* Program constants.                                                      *)
(***************************************************************************)
\* maxEventBufferSize = 1e6 in the constructor
DefaultBufferSize == 1000000
\* "The source name is too short (length < 5)"
MinSourceLen == 5
\* sizeof(int32_t)
WordSize == 4
\* source types handed to f_evt_get_open; "none" is sourceType = 0
GETEVT__FILE == "file"
GETEVT__STREAM == "stream"
NoSourceType == "none"

(***************************************************************************)
(* std::string helpers.                                                    *)
(***************************************************************************)
Min(a, b) == IF a < b THEN a ELSE b

UpperCase == <<"A","B","C","D","E","F","G","H","I","J","K","L","M",
               "N","O","P","Q","R","S","T","U","V","W","X","Y","Z">>
LowerCase == <<"a","b","c","d","e","f","g","h","i","j","k","l","m",
               "n","o","p","q","r","s","t","u","v","w","x","y","z">>
Digits == <<"0","1","2","3","4","5","6","7","8","9">>

\* ::tolower on one character
ToLowerChar(c) ==
    IF \E i \in 1..26 : UpperCase[i] = c
    THEN LowerCase[CHOOSE i \in 1..26 : UpperCase[i] = c]
    ELSE c

\* std::transform(s.begin(), s.end(), s.begin(), ::tolower)
ToLower(s) == [i \in 1..Len(s) |-> ToLowerChar(s[i])]

\* std::string::substr(pos, count), pos 0-based and pos <= size: count is
\* clamped to the end of the string
Substr(s, pos, count) == SubSeq(s, pos + 1, Min(pos + count, Len(s)))

\* the search of rfind, backwards from the i-th character
RECURSIVE RFindFrom(_, _, _)
RFindFrom(s, c, i) ==
    IF i = 0 THEN -1
    ELSE IF s[i] = c THEN i - 1
    ELSE RFindFrom(s, c, i - 1)

\* std::string::rfind(c): 0-based position of the last c, -1 for npos
RFind(s, c) == RFindFrom(s, c, Len(s))

IsDigit(c) == c \in {"0", "1", "2", "3", "4", "5", "6", "7", "8", "9"}
DigitVal(c) == (CHOOSE i \in 1..10 : Digits[i] = c) - 1

\* number of leading decimal digits of s
DigitPrefixLen(s) ==
    IF \A i \in 1..Len(s) : IsDigit(s[i]) THEN Len(s)
    ELSE (CHOOSE i \in 1..Len(s) :
            ~IsDigit(s[i]) /\ \A j \in 1..(i - 1) : IsDigit(s[j])) - 1

\* value of the first n characters of s, all decimal digits
RECURSIVE DigitsValue(_, _)
DigitsValue(s, n) ==
    IF n = 0 THEN 0 ELSE 10 * DigitsValue(s, n - 1) + DigitVal(s[n])

\* std::stoul(s, nullptr) on names without blanks or signs: throws
\* (StoulThrows) when s does not start with a digit, else converts the
\* leading digits
StoulThrows(s) == DigitPrefixLen(s) = 0
Stoul(s) == DigitsValue(s, DigitPrefixLen(s))

\* operator<< of an unsigned number: its decimal digits
RECURSIVE ToDecimal(_)
ToDecimal(n) ==
    IF n < 10 THEN <<Digits[n + 1]>>
    ELSE ToDecimal(n \div 10) \o <<Digits[(n % 10) + 1]>>

\* ss << std::setw(width) << std::setfill('0') << n : padded on the left,
\* never truncated
SetwFill0(width, n) ==
    LET d == ToDecimal(n)
    IN  IF Len(d) >= width THEN d
        ELSE [i \in 1..(width - Len(d)) |-> "0"] \o d

\* fs::path::filename(): what follows the last '/'
PathFilename(p) == SubSeq(p, RFind(p, "/") + 2, Len(p))

\* fs::path::parent_path(): what precedes the last '/', the root "/" for a
\* file directly under it, empty when there is no '/'
PathParent(p) ==
    LET k == RFind(p, "/")
    IN  IF k = -1 THEN <<>>
        ELSE IF k = 0 THEN <<"/">>
        ELSE SubSeq(p, 1, k)

(***************************************************************************)
(* Inputs.                                                                 *)
(***************************************************************************)
\* "d/r_9.LMD": a numbered file in a directory, upper-case extension
NameRun == <<"d","/","r","_","9",".","L","M","D">>
\* "1.2.3": a host address of five characters
NameHost == <<"1",".","2",".","3">>
\* "almd": ends in lmd but is shorter than five characters
NameShort == <<"a","l","m","d">>

Identifiers == {NameRun, NameHost, NameShort}
ConnectionOptions == {"stream", "file", "automatic"}
FileLists == {<<>>, <<NameRun, NameHost>>}
\* nElementsToCopy of getEventData
DrainCounts == {0, 1, 2 * MaxEvents}
\* arguments of setBufferLimit
BufferLimits == {0}
\* dataLength of the sub-events of one raw event, in sub-event order: a raw
\* event has a sub-event of one word, an empty one and one of two words
RawShapes == {<<1, 0, 2>>}

\* mbsSource while no source is open
NotConnected == <<"n","o","t"," ","c","o","n","n","e","c","t","e","d">>

(***************************************************************************)
(* State.                                                                  *)
(***************************************************************************)
VARIABLES
    \* members of MbsClient
    disconnected,        \* std::atomic_bool
    noMoreEvents,
    sizeOfReceivedData,
    nEventsInBuffer,
    nReceivedEvents,
    maxEventBufferSize,
    inputChannel,        \* "null", or the state of the channel it points to:
                         \* "control" (f_evt_control, not open), "open", "closed"
    mbsSource,
    filelist,
    currentFileIndex,
    eventBuffer,
    queueMutex,          \* 0 free, i > 0 held by receiverThread[i],
                         \* -1 clearEventBuffer, -2 disconnect
    filelistMutex,       \* 0 free, i > 0 held by fileseekThread[i]
    receiverThread,      \* std::vector<std::thread>: one record per thread
    fileseekThread,
    \* callers
    ctl,                 \* the thread calling connect / disconnect
    clr,                 \* the thread calling clearEventBuffer
    dest,                \* the vector the consumer passes to getEventData
    \* environment and history
    nFetched,            \* raw events delivered so far
    nConnects,           \* connect calls that reached openLmdFile so far
    pushed,              \* events the workers took from the adapter, in order
    cleared,             \* clearEventBuffer was called at some time
    lastCall,            \* the connect / disconnect that returned last, until
                         \* the next disconnect starts: its option, what it
                         \* returned and the sourceType connect chose
    lastDrain,           \* "missed": getEventData found the lock held, and it
                         \* is still held; "whole": getEventData was asked for
                         \* the whole non-empty buffer, and nothing has touched
                         \* the buffer or the lock since; "none" otherwise
    sessionOpen,         \* a connect succeeded and no disconnect returned since
    sessDrained,         \* events drained since the counters were last reset
    sessClean,           \* buffer was empty at that reset and not cleared since
    throttled,           \* the last push followed the backpressure sleep
    exhausted,           \* the sources that returned GETEVT__NOMORE while open
                         \* since the last connect that opened one, in order
    nFatal               \* read errors the adapter has reported so far

vars == <<disconnected, noMoreEvents, sizeOfReceivedData, nEventsInBuffer,
          nReceivedEvents, maxEventBufferSize, inputChannel, mbsSource,
          filelist, currentFileIndex, eventBuffer, queueMutex, filelistMutex,
          receiverThread, fileseekThread, ctl, clr, dest, nFetched,
          nConnects, pushed, cleared, lastCall, lastDrain, sessionOpen,
          sessDrained, sessClean, throttled, exhausted, nFatal>>

counters == <<sizeOfReceivedData, nEventsInBuffer, nReceivedEvents>>
history == <<nConnects, pushed, cleared, sessDrained, sessClean, throttled,
             exhausted, nFatal>>

\* no call of connect or disconnect has returned
NoCall == [op |-> "none", opt |-> "none", ret |-> FALSE, type |-> NoSourceType]

NoRaw == [t0 |-> 0, t1 |-> 0, subs |-> <<>>]
\* a thread of receiverThread: where it is in eventReceiver and its locals
NewReceiver == [pc |-> "loop", raw |-> NoRaw, next |-> <<>>]
\* a thread of fileseekThread: where it is in newFileSeeker and nextFilePath
NewSeeker == [pc |-> "loop", next |-> <<>>]

\* MbsClient::MbsClient()
Init ==
    /\ disconnected = TRUE
    /\ noMoreEvents = FALSE
    /\ sizeOfReceivedData = 0
    /\ nEventsInBuffer = 0
    /\ nReceivedEvents = 0
    /\ maxEventBufferSize = DefaultBufferSize
    /\ inputChannel = "null"
    /\ mbsSource = NotConnected
    /\ filelist = <<>>
    /\ currentFileIndex = 0
    /\ eventBuffer = <<>>
    /\ queueMutex = 0
    /\ filelistMutex = 0
    /\ receiverThread = <<>>
    /\ fileseekThread = <<>>
    /\ ctl = "idle"
    /\ clr = "idle"
    /\ dest = <<>>
    /\ nFetched = 0
    /\ nConnects = 0
    /\ pushed = <<>>
    /\ cleared = FALSE
    /\ lastCall = NoCall
    /\ lastDrain = "none"
    /\ sessionOpen = FALSE
    /\ sessDrained = 0
    /\ sessClean = TRUE
    /\ throttled = FALSE
    /\ exhausted = <<>>
    /\ nFatal = 0

\* bool isConnected() const { return !disconnected; }
isConnected == ~disconnected

\* std::string getEventServerName() const
getEventServerName == mbsSource

(***************************************************************************)
(* connect.                                                                *)
(***************************************************************************)
\* mutant of FileExt: the extension is compared as it is written
FileExtCaseSensitive(src) == Substr(src, Len(src) - 3, Len(src) - 1)

\* file_ext: mbsSource.substr(size-3, size-1), lower-cased
FileExt(src) == ToLower(Substr(src, Len(src) - 3, Len(src) - 1))

\* connect(string): the automatic option gives up on a short name
AutoTooShort(src, conOpt) == conOpt = "automatic" /\ Len(src) < MinSourceLen

\* connect(string): sourceType chosen from conOpt and the name
SourceTypeOf(src, conOpt) ==
    CASE conOpt = "file" -> GETEVT__FILE
      [] conOpt = "stream" -> GETEVT__STREAM
      [] conOpt = "automatic" ->
            IF FileExt(src) = <<"l","m","d">> THEN GETEVT__FILE ELSE GETEVT__STREAM
      [] OTHER -> NoSourceType

\* openLmdFile(src, type); ok is the adapter's answer to f_evt_get_open
OpenLmdFile(src, type, ok) ==
    /\ inputChannel' = IF ok THEN "open" ELSE "control"
    /\ mbsSource' = IF ok THEN src ELSE mbsSource
    /\ disconnected' = IF ok THEN FALSE ELSE disconnected

\* the part connect(string) and connect(list) share: reset, open, spawn
ConnectOpen(op, opt, first, type, pool) ==
    /\ nConnects < MaxConnects
    /\ nConnects + nFetched + nFatal < MaxWork
    /\ nConnects' = nConnects + 1
    /\ sizeOfReceivedData' = 0
    /\ nEventsInBuffer' = 0
    /\ nReceivedEvents' = 0
    /\ noMoreEvents' = FALSE
    /\ \E ok \in BOOLEAN :
         /\ OpenLmdFile(first, type, ok)
         /\ fileseekThread' = IF ok /\ pool THEN Append(fileseekThread, NewSeeker)
                              ELSE fileseekThread
         /\ receiverThread' = IF ok THEN Append(receiverThread, NewReceiver)
                              ELSE receiverThread
         /\ lastCall' = [op |-> op, opt |-> opt, ret |-> ok, type |-> type]
         /\ sessionOpen' = (ok \/ sessionOpen)
    /\ sessDrained' = 0
    /\ sessClean' = (eventBuffer = <<>>)
    /\ exhausted' = <<>>

\* bool connect(std::string mbsSource, ConnectionOption conOpt, bool poolForNextFile)
Connect(src, conOpt, poolForNextFile) ==
    /\ ctl = "idle"
    /\ IF AutoTooShort(src, conOpt)
       THEN /\ sizeOfReceivedData' = 0
            /\ nEventsInBuffer' = 0
            /\ nReceivedEvents' = 0
            /\ noMoreEvents' = FALSE
            /\ sessDrained' = 0
            /\ sessClean' = (eventBuffer = <<>>)
            /\ lastCall' = [op |-> "connect", opt |-> conOpt, ret |-> FALSE,
                             type |-> NoSourceType]
            /\ UNCHANGED <<disconnected, inputChannel, mbsSource, filelist,
                           receiverThread, fileseekThread, sessionOpen,
                           nConnects, exhausted>>
       ELSE /\ Len(filelist) < MaxFiles
            /\ filelist' = Append(filelist, src)
            /\ ConnectOpen("connect", conOpt, filelist'[1],
                           SourceTypeOf(src, conOpt),
                           poolForNextFile /\ SourceTypeOf(src, conOpt) = GETEVT__FILE)
    /\ UNCHANGED <<maxEventBufferSize, currentFileIndex, eventBuffer, queueMutex,
                   filelistMutex, ctl, clr, dest, nFetched, pushed, cleared,
                   lastDrain, throttled, nFatal>>

\* mutant of ConnectList: the counters are reset before the list is looked
\* at, as connect(string) does before it looks at the name
ConnectListResetsFirst(fileList, poolForNextFile) ==
    /\ ctl = "idle"
    /\ IF Len(fileList) = 0
       THEN /\ sizeOfReceivedData' = 0
            /\ nEventsInBuffer' = 0
            /\ nReceivedEvents' = 0
            /\ noMoreEvents' = FALSE
            /\ lastCall' = [op |-> "connectList", opt |-> "none", ret |-> FALSE,
                             type |-> NoSourceType]
            /\ UNCHANGED <<disconnected, inputChannel, mbsSource, filelist,
                           receiverThread, fileseekThread, sessionOpen,
                           sessDrained, sessClean, nConnects, exhausted>>
       ELSE /\ filelist' = fileList
            /\ ConnectOpen("connectList", "none", fileList[1], GETEVT__FILE,
                           poolForNextFile)
    /\ UNCHANGED <<maxEventBufferSize, currentFileIndex, eventBuffer, queueMutex,
                   filelistMutex, ctl, clr, dest, nFetched, pushed, cleared,
                   lastDrain, throttled, nFatal>>

\* bool connect(std::vector<std::string> fileList, bool poolForNextFile)
ConnectList(fileList, poolForNextFile) ==
    /\ ctl = "idle"
    /\ IF Len(fileList) = 0
       THEN /\ lastCall' = [op |-> "connectList", opt |-> "none", ret |-> FALSE,
                             type |-> NoSourceType]
            /\ UNCHANGED <<disconnected, noMoreEvents, counters, inputChannel,
                           mbsSource, filelist, receiverThread, fileseekThread,
                           sessionOpen, sessDrained, sessClean, nConnects,
                           exhausted>>
       ELSE /\ filelist' = fileList
            /\ ConnectOpen("connectList", "none", fileList[1], GETEVT__FILE,
                           poolForNextFile)
    /\ UNCHANGED <<maxEventBufferSize, currentFileIndex, eventBuffer, queueMutex,
                   filelistMutex, ctl, clr, dest, nFetched, pushed, cleared,
                   lastDrain, throttled, nFatal>>

(***************************************************************************)
(* disconnect: lock, set the flag, unlock, join, close.                    *)
(***************************************************************************)
\* std::unique_lock<std::mutex> lock(queueMutex)
DisconnectLock ==
    /\ ctl = "idle"
    /\ queueMutex = 0
    /\ queueMutex' = -2
    /\ ctl' = "set"
    /\ lastCall' = NoCall
    /\ UNCHANGED <<disconnected, noMoreEvents, counters, maxEventBufferSize,
                   inputChannel, mbsSource, filelist, currentFileIndex,
                   eventBuffer, filelistMutex, receiverThread, fileseekThread,
                   clr, dest, nFetched, sessionOpen>>
    /\ lastDrain' = "none"
    /\ UNCHANGED history

\* disconnected = true; lock.unlock()
DisconnectSet ==
    /\ ctl = "set"
    /\ disconnected' = TRUE
    /\ queueMutex' = 0
    /\ ctl' = "joinReceiver"
    /\ UNCHANGED <<noMoreEvents, counters, maxEventBufferSize, inputChannel,
                   mbsSource, filelist, currentFileIndex, eventBuffer,
                   filelistMutex, receiverThread, fileseekThread, clr, dest,
                   nFetched, lastCall, sessionOpen>>
    /\ lastDrain' = "none"
    /\ UNCHANGED history

\* join every receiverThread, then receiverThread.clear()
DisconnectJoinReceiver ==
    /\ ctl = "joinReceiver"
    /\ \A i \in 1..Len(receiverThread) : receiverThread[i].pc = "done"
    /\ receiverThread' = <<>>
    /\ ctl' = "joinSeeker"
    /\ UNCHANGED <<disconnected, noMoreEvents, counters, maxEventBufferSize,
                   inputChannel, mbsSource, filelist, currentFileIndex,
                   eventBuffer, queueMutex, filelistMutex, fileseekThread, clr,
                   dest, nFetched, lastCall, sessionOpen>>
    /\ UNCHANGED <<history, lastDrain>>

\* join every fileseekThread, then fileseekThread.clear()
DisconnectJoinSeeker ==
    /\ ctl = "joinSeeker"
    /\ \A j \in 1..Len(fileseekThread) : fileseekThread[j].pc = "done"
    /\ fileseekThread' = <<>>
    /\ ctl' = "close"
    /\ UNCHANGED <<disconnected, noMoreEvents, counters, maxEventBufferSize,
                   inputChannel, mbsSource, filelist, currentFileIndex,
                   eventBuffer, queueMutex, filelistMutex, receiverThread, clr,
                   dest, nFetched, lastCall, sessionOpen>>
    /\ UNCHANGED <<history, lastDrain>>

\* f_evt_get_close if the handle is not null, reset the members, return true
DisconnectClose ==
    /\ ctl = "close"
    /\ inputChannel' = "null"
    /\ mbsSource' = NotConnected
    /\ lastCall' = [op |-> "disconnect", opt |-> "none", ret |-> TRUE,
                     type |-> NoSourceType]
    /\ sessionOpen' = FALSE
    /\ ctl' = "idle"
    /\ UNCHANGED <<disconnected, noMoreEvents, counters, maxEventBufferSize,
                   filelist, currentFileIndex, eventBuffer, queueMutex,
                   filelistMutex, receiverThread, fileseekThread, clr, dest,
                   nFetched>>
    /\ UNCHANGED <<history, lastDrain>>

(***************************************************************************)
(* eventReceiver.                                                          *)
(***************************************************************************)
\* results of f_evt_get_event: "RDERR" is a read error, "OTHER" any result
\* that is none of the rest (no event ready yet)
FetchResults == {"SUCCESS", "NOMORE", "FRAGMENT", "RDERR", "OTHER"}

\* mbsTimestamp = l_time[0]*1000 + l_time[1]
Timestamp(raw) == raw.t0 * 1000 + raw.t1

\* the payload f_evt_get_subevent hands out for sub-event sub of a raw event:
\* dataLength words that identify the raw event and the sub-event
SubEventData(raw, sub) == [w \in 1..raw.subs[sub] |-> 10 * raw.t1 + sub]

\* mutant of PushSubEvents: a buffer above its limit takes no more events
RECURSIVE PushSubEventsBounded(_, _, _)
PushSubEventsBounded(buf, raw, sub) ==
    IF sub > Len(raw.subs) THEN buf
    ELSE IF raw.subs[sub] > 0 /\ Len(buf) <= maxEventBufferSize
         THEN PushSubEventsBounded(Append(buf, [timestamp |-> Timestamp(raw),
                                                data |-> SubEventData(raw, sub)]),
                                   raw, sub + 1)
         ELSE PushSubEventsBounded(buf, raw, sub + 1)

\* the sub-event loop from sub-event `sub` on: every sub-event with
\* dataLength > 0 is push_back'ed with the raw event's timestamp
RECURSIVE PushSubEvents(_, _, _)
PushSubEvents(buf, raw, sub) ==
    IF sub > Len(raw.subs) THEN buf
    ELSE IF raw.subs[sub] > 0
         THEN PushSubEvents(Append(buf, [timestamp |-> Timestamp(raw),
                                         data |-> SubEventData(raw, sub)]),
                            raw, sub + 1)
         ELSE PushSubEvents(buf, raw, sub + 1)

\* sizeOfReceivedData += dataLength*sizeof(int32_t) over the sub-event loop
RECURSIVE ReceivedBytes(_, _)
ReceivedBytes(raw, sub) ==
    IF sub > Len(raw.subs) THEN 0
    ELSE raw.subs[sub] * WordSize + ReceivedBytes(raw, sub + 1)

\* nReceivedEvents++ over the sub-event loop
RECURSIVE ReceivedEvents(_, _)
ReceivedEvents(raw, sub) ==
    IF sub > Len(raw.subs) THEN 0
    ELSE (IF raw.subs[sub] > 0 THEN 1 ELSE 0) + ReceivedEvents(raw, sub + 1)

\* history: the events of a raw event as the adapter delivered them, the
\* sub-events of dataLength 0 left out
Delivered(raw) ==
    LET nonEmpty == SelectSeq([s \in 1..Len(raw.subs) |-> s],
                              LAMBDA s : raw.subs[s] > 0)
    IN  [k \in 1..Len(nonEmpty) |->
           [timestamp |-> 1000 * raw.t0 + raw.t1,
            data |-> [w \in 1..raw.subs[nonEmpty[k]] |-> 10 * raw.t1 + nonEmpty[k]]]]

SetReceiver(i, r) == receiverThread' = [receiverThread EXCEPT ![i] = r]

\* one pass from the loop test to the end of the result handling
ReceiverFetch(i) ==
    /\ receiverThread[i].pc = "loop"
    /\ IF inputChannel = "null" \/ disconnected
       THEN /\ SetReceiver(i, [receiverThread[i] EXCEPT !.pc = "done"])
            /\ UNCHANGED <<noMoreEvents, inputChannel, currentFileIndex,
                           nFetched, throttled, exhausted, nFatal>>
       ELSE \E result \in FetchResults :
            CASE result = "NOMORE" ->
                   \* f_evt_get_close(inputChannel), then the next file or the flag
                   /\ inputChannel' = "closed"
                   /\ exhausted' = IF inputChannel = "open"
                                   THEN Append(exhausted, mbsSource)
                                   ELSE exhausted
                   /\ IF Len(filelist) > currentFileIndex + 1
                      THEN /\ currentFileIndex' = currentFileIndex + 1
                           /\ SetReceiver(i, [receiverThread[i] EXCEPT
                                  !.pc = "open",
                                  !.next = filelist[currentFileIndex' + 1]])
                           /\ UNCHANGED noMoreEvents
                      ELSE /\ noMoreEvents' = TRUE
                           /\ UNCHANGED <<currentFileIndex, receiverThread>>
                   /\ UNCHANGED <<nFetched, throttled, nFatal>>
              [] result = "SUCCESS" ->
                   /\ nFetched < MaxEvents
                   /\ nConnects + nFetched + nFatal < MaxWork
                   /\ nFetched' = nFetched + 1
                   /\ noMoreEvents' = FALSE
                   /\ throttled' = (nEventsInBuffer > maxEventBufferSize)
                   /\ \E shape \in RawShapes :
                        SetReceiver(i, [receiverThread[i] EXCEPT
                            !.pc = IF nEventsInBuffer > maxEventBufferSize
                                   THEN "sleep" ELSE "lock",
                            !.raw = [t0 |-> 1, t1 |-> nFetched', subs |-> shape]])
                   /\ UNCHANGED <<inputChannel, currentFileIndex, exhausted,
                                  nFatal>>
              [] result = "RDERR" ->
                   \* result != GETEVT__SUCCESS: sleep 1 ms, continue
                   /\ nFatal < MaxFatal
                   /\ nConnects + nFetched + nFatal < MaxWork
                   /\ nFatal' = nFatal + 1
                   /\ UNCHANGED <<noMoreEvents, inputChannel, currentFileIndex,
                                  receiverThread, nFetched, throttled, exhausted>>
              [] OTHER ->
                   \* result != GETEVT__SUCCESS: sleep 1 ms, continue
                   UNCHANGED <<noMoreEvents, inputChannel, currentFileIndex,
                               receiverThread, nFetched, throttled, exhausted,
                               nFatal>>
    /\ UNCHANGED <<disconnected, counters, maxEventBufferSize, mbsSource,
                   filelist, eventBuffer, queueMutex, filelistMutex,
                   fileseekThread, ctl, clr, dest, nConnects, pushed, cleared,
                   lastCall, lastDrain, sessionOpen, sessDrained, sessClean>>

\* mutant of ReceiverOpen: the worker stays in its loop when the open fails
ReceiverOpenKeepsGoing(i) ==
    /\ receiverThread[i].pc = "open"
    /\ \E ok \in BOOLEAN :
         /\ OpenLmdFile(receiverThread[i].next, GETEVT__FILE, ok)
         /\ SetReceiver(i, [receiverThread[i] EXCEPT !.pc = "loop", !.next = <<>>])
    /\ UNCHANGED <<noMoreEvents, counters, maxEventBufferSize, filelist,
                   currentFileIndex, eventBuffer, queueMutex, filelistMutex,
                   fileseekThread, ctl, clr, dest, nFetched, lastCall,
                   sessionOpen>>
    /\ UNCHANGED <<history, lastDrain>>

\* openLmdFile(next_mbs_source, GETEVT__FILE); return when it fails
ReceiverOpen(i) ==
    /\ receiverThread[i].pc = "open"
    /\ \E ok \in BOOLEAN :
         /\ OpenLmdFile(receiverThread[i].next, GETEVT__FILE, ok)
         /\ SetReceiver(i, [receiverThread[i] EXCEPT
                !.pc = IF ok THEN "loop" ELSE "done", !.next = <<>>])
    /\ UNCHANGED <<noMoreEvents, counters, maxEventBufferSize, filelist,
                   currentFileIndex, eventBuffer, queueMutex, filelistMutex,
                   fileseekThread, ctl, clr, dest, nFetched, lastCall,
                   sessionOpen>>
    /\ UNCHANGED <<history, lastDrain>>

\* the 50 ms sleep taken when nEventsInBuffer > maxEventBufferSize
ReceiverSleep(i) ==
    /\ receiverThread[i].pc = "sleep"
    /\ SetReceiver(i, [receiverThread[i] EXCEPT !.pc = "lock"])
    /\ UNCHANGED <<disconnected, noMoreEvents, counters, maxEventBufferSize,
                   inputChannel, mbsSource, filelist, currentFileIndex,
                   eventBuffer, queueMutex, filelistMutex, fileseekThread, ctl,
                   clr, dest, nFetched, lastCall, sessionOpen>>
    /\ UNCHANGED <<history, lastDrain>>

\* std::unique_lock<std::mutex> ulock(queueMutex)
ReceiverLock(i) ==
    /\ receiverThread[i].pc = "lock"
    /\ queueMutex = 0
    /\ queueMutex' = i
    /\ SetReceiver(i, [receiverThread[i] EXCEPT !.pc = "push"])
    /\ UNCHANGED <<disconnected, noMoreEvents, counters, maxEventBufferSize,
                   inputChannel, mbsSource, filelist, currentFileIndex,
                   eventBuffer, filelistMutex, fileseekThread, ctl, clr, dest,
                   nFetched, lastCall, sessionOpen>>
    /\ lastDrain' = "none"
    /\ UNCHANGED history

\* the sub-event loop, nEventsInBuffer = eventBuffer.size(), unlock
ReceiverPush(i) ==
    /\ receiverThread[i].pc = "push"
    /\ LET raw == receiverThread[i].raw
       IN  /\ eventBuffer' = PushSubEvents(eventBuffer, raw, 1)
           /\ sizeOfReceivedData' = sizeOfReceivedData + ReceivedBytes(raw, 1)
           /\ nReceivedEvents' = nReceivedEvents + ReceivedEvents(raw, 1)
           /\ pushed' = pushed \o Delivered(raw)
    /\ nEventsInBuffer' = Len(eventBuffer')
    /\ queueMutex' = 0
    /\ lastDrain' = "none"
    /\ SetReceiver(i, [receiverThread[i] EXCEPT !.pc = "loop", !.raw = NoRaw])
    /\ UNCHANGED <<disconnected, noMoreEvents, maxEventBufferSize, inputChannel,
                   mbsSource, filelist, currentFileIndex, filelistMutex,
                   fileseekThread, ctl, clr, dest, nFetched, nConnects,
                   cleared, lastCall, sessionOpen, sessDrained, sessClean,
                   throttled, exhausted, nFatal>>

(***************************************************************************)
(* newFileSeeker.                                                          *)
(***************************************************************************)
\* numberPart = filename.substr(underline_pos+1, size-underline_pos-5); the
\* count is a size_t, so a negative difference wraps to "up to the end"
NumberPart(filename) ==
    LET pos == RFind(filename, "_")
        count == Len(filename) - pos - 5
    IN  Substr(filename, pos + 1, IF count < 0 THEN Len(filename) ELSE count)

\* the two early returns: no '_' in the file name, std::stoul throws
SeekerGivesUp(path) ==
    \E filename \in {PathFilename(path)} :
        \/ RFind(filename, "_") = -1
        \/ \E numberPart \in {NumberPart(filename)} : StoulThrows(numberPart)

\* nextFilePath = dir + "/" + prefix + "_" + setw/setfill(number+1) + ".lmd",
\* from the locals filename, numberPart and number (a uint32_t: the file
\* numbers of the model stay far below its range)
NextFilePath(path, filename, numberPart, number) ==
    PathParent(path) \o <<"/">> \o Substr(filename, 0, RFind(filename, "_"))
      \o <<"_">> \o SetwFill0(Len(numberPart), number + 1)
      \o <<".","l","m","d">>

SetSeeker(j, r) == fileseekThread' = [fileseekThread EXCEPT ![j] = r]

\* one pass from the loop test to fs::exists(nextFilePath)
SeekerLoop(j) ==
    /\ fileseekThread[j].pc = "loop"
    /\ IF disconnected \/ SeekerGivesUp(filelist[Len(filelist)])
       THEN SetSeeker(j, [fileseekThread[j] EXCEPT !.pc = "done"])
       ELSE \E exists \in BOOLEAN :
              IF exists
              THEN /\ Len(filelist) < MaxFiles
                   /\ \E filename \in {PathFilename(filelist[Len(filelist)])} :
                      \E numberPart \in {NumberPart(filename)} :
                      \E number \in {Stoul(numberPart)} :
                        SetSeeker(j, [pc |-> "lock",
                                      next |-> NextFilePath(filelist[Len(filelist)],
                                                   filename, numberPart, number)])
              ELSE \* sleep 100 ms
                   UNCHANGED fileseekThread
    /\ UNCHANGED <<disconnected, noMoreEvents, counters, maxEventBufferSize,
                   inputChannel, mbsSource, filelist, currentFileIndex,
                   eventBuffer, queueMutex, filelistMutex, receiverThread, ctl,
                   clr, dest, nFetched, lastCall, sessionOpen>>
    /\ UNCHANGED <<history, lastDrain>>

\* std::unique_lock<std::mutex> ulock(filelistMutex)
SeekerLock(j) ==
    /\ fileseekThread[j].pc = "lock"
    /\ filelistMutex = 0
    /\ filelistMutex' = j
    /\ SetSeeker(j, [fileseekThread[j] EXCEPT !.pc = "append"])
    /\ UNCHANGED <<disconnected, noMoreEvents, counters, maxEventBufferSize,
                   inputChannel, mbsSource, filelist, currentFileIndex,
                   eventBuffer, queueMutex, receiverThread, ctl, clr, dest,
                   nFetched, lastCall, sessionOpen>>
    /\ UNCHANGED <<history, lastDrain>>

\* filelist.push_back(nextFilePath), unlock at the end of the block
SeekerAppend(j) ==
    /\ fileseekThread[j].pc = "append"
    /\ filelist' = Append(filelist, fileseekThread[j].next)
    /\ filelistMutex' = 0
    /\ SetSeeker(j, NewSeeker)
    /\ UNCHANGED <<disconnected, noMoreEvents, counters, maxEventBufferSize,
                   inputChannel, mbsSource, currentFileIndex, eventBuffer,
                   queueMutex, receiverThread, ctl, clr, dest, nFetched, lastCall,
                   sessionOpen>>
    /\ UNCHANGED <<history, lastDrain>>

(***************************************************************************)
(* The consumer's calls on the buffer.                                     *)
(***************************************************************************)
\* mutant of NumToCopy: always leaves the last event behind
NumToCopyShort(buf, nElementsToCopy) ==
    IF Len(buf) = 0 THEN 0 ELSE Min(nElementsToCopy, Len(buf) - 1)

\* nElementsToCopy = std::min<size_t>(nElementsToCopy, eventBuffer.size())
NumToCopy(buf, nElementsToCopy) == Min(nElementsToCopy, Len(buf))

\* the events getEventData inserts at the end of dest
DrainTaken(buf, nElementsToCopy) == SubSeq(buf, 1, NumToCopy(buf, nElementsToCopy))

\* mutant of DrainLeft: the erase stops one short, the last copied event stays
DrainLeftOffByOne(buf, nElementsToCopy) ==
    IF NumToCopy(buf, nElementsToCopy) = 0 THEN buf
    ELSE SubSeq(buf, NumToCopy(buf, nElementsToCopy), Len(buf))

\* eventBuffer.erase(begin, begin + nElementsToCopy): what stays
DrainLeft(buf, nElementsToCopy) ==
    SubSeq(buf, NumToCopy(buf, nElementsToCopy) + 1, Len(buf))

\* mutant of TryLock: the drain goes on whoever holds the lock
TryLockIgnored(mutex) == TRUE

\* std::unique_lock ulock(queueMutex, std::try_to_lock); ulock.owns_lock()
TryLock(mutex) == mutex = 0

\* void getEventData(std::vector<MbsEvent> &dest, size_t nElementsToCopy)
GetEventData(nElementsToCopy) ==
    /\ lastDrain' = IF ~TryLock(queueMutex) THEN "missed"
                    ELSE IF 0 < Len(eventBuffer) /\ Len(eventBuffer) <= nElementsToCopy
                         THEN "whole" ELSE "none"
    /\ IF TryLock(queueMutex)
       THEN /\ dest' = dest \o DrainTaken(eventBuffer, nElementsToCopy)
            /\ eventBuffer' = DrainLeft(eventBuffer, nElementsToCopy)
            /\ nEventsInBuffer' = Len(eventBuffer')
            /\ sessDrained' = sessDrained + Len(eventBuffer) - Len(eventBuffer')
       ELSE UNCHANGED <<dest, eventBuffer, nEventsInBuffer, sessDrained>>
    /\ UNCHANGED <<disconnected, noMoreEvents, sizeOfReceivedData,
                   nReceivedEvents, maxEventBufferSize, inputChannel, mbsSource,
                   filelist, currentFileIndex, queueMutex, filelistMutex,
                   receiverThread, fileseekThread, ctl, clr, nFetched, nConnects,
                   pushed, cleared, lastCall, sessionOpen, sessClean, throttled,
                   exhausted, nFatal>>

\* clearEventBuffer: std::unique_lock<std::mutex> ulock(queueMutex)
ClearLock ==
    /\ clr = "idle"
    /\ queueMutex = 0
    /\ queueMutex' = -1
    /\ clr' = "clear"
    /\ UNCHANGED <<disconnected, noMoreEvents, counters, maxEventBufferSize,
                   inputChannel, mbsSource, filelist, currentFileIndex,
                   eventBuffer, filelistMutex, receiverThread, fileseekThread,
                   ctl, dest, nFetched, lastCall, sessionOpen>>
    /\ lastDrain' = "none"
    /\ UNCHANGED history

\* mutant of ClearEventBuffer: the snapshot nEventsInBuffer is left as it was
ClearEventBufferKeepsCount ==
    /\ clr = "clear"
    /\ eventBuffer' = <<>>
    /\ nEventsInBuffer' = nEventsInBuffer
    /\ queueMutex' = 0
    /\ lastDrain' = "none"
    /\ clr' = "idle"
    /\ cleared' = TRUE
    /\ sessClean' = FALSE
    /\ UNCHANGED <<disconnected, noMoreEvents, sizeOfReceivedData,
                   nReceivedEvents, maxEventBufferSize, inputChannel, mbsSource,
                   filelist, currentFileIndex, filelistMutex, receiverThread,
                   fileseekThread, ctl, dest, nFetched, nConnects, pushed,
                   lastCall, sessionOpen, sessDrained, throttled, exhausted,
                   nFatal>>

\* clearEventBuffer: eventBuffer.clear(); nEventsInBuffer = 0; unlock
ClearEventBuffer ==
    /\ clr = "clear"
    /\ eventBuffer' = <<>>
    /\ nEventsInBuffer' = 0
    /\ queueMutex' = 0
    /\ lastDrain' = "none"
    /\ clr' = "idle"
    /\ cleared' = TRUE
    /\ sessClean' = FALSE
    /\ UNCHANGED <<disconnected, noMoreEvents, sizeOfReceivedData,
                   nReceivedEvents, maxEventBufferSize, inputChannel, mbsSource,
                   filelist, currentFileIndex, filelistMutex, receiverThread,
                   fileseekThread, ctl, dest, nFetched, nConnects, pushed,
                   lastCall, sessionOpen, sessDrained, throttled, exhausted,
                   nFatal>>

\* void setBufferLimit(size_t maxEventBufferSize)
SetBufferLimit(limit) ==
    /\ maxEventBufferSize' = limit
    /\ UNCHANGED <<disconnected, noMoreEvents, counters, inputChannel, mbsSource,
                   filelist, currentFileIndex, eventBuffer, queueMutex,
                   filelistMutex, receiverThread, fileseekThread, ctl, clr, dest,
                   nFetched, lastCall, sessionOpen>>
    /\ UNCHANGED <<history, lastDrain>>

(***************************************************************************)
(* Specifications.                                                         *)
(***************************************************************************)
\* the caller keeps to connect .. disconnect: no thread of an earlier
\* session is left in the thread vectors when connect is called
NoThreads == Len(receiverThread) = 0 /\ Len(fileseekThread) = 0

Disconnect ==
    \/ DisconnectLock
    \/ DisconnectSet
    \/ DisconnectJoinReceiver
    \/ DisconnectJoinSeeker
    \/ DisconnectClose

BufferCalls ==
    \/ \E n \in DrainCounts : GetEventData(n)
    \/ ClearLock
    \/ ClearEventBuffer
    \/ \E limit \in BufferLimits : SetBufferLimit(limit)

Receivers ==
    \/ \E i \in 1..Len(receiverThread) : ReceiverFetch(i)
    \/ \E i \in 1..Len(receiverThread) : ReceiverOpen(i)
    \/ \E i \in 1..Len(receiverThread) : ReceiverSleep(i)
    \/ \E i \in 1..Len(receiverThread) : ReceiverLock(i)
    \/ \E i \in 1..Len(receiverThread) : ReceiverPush(i)

Seekers ==
    \/ \E j \in 1..Len(fileseekThread) : SeekerLoop(j)
    \/ \E j \in 1..Len(fileseekThread) : SeekerLock(j)
    \/ \E j \in 1..Len(fileseekThread) : SeekerAppend(j)

Next ==
    \/ \E src \in Identifiers, conOpt \in ConnectionOptions, pool \in BOOLEAN :
         NoThreads /\ Connect(src, conOpt, pool)
    \/ \E fileList \in FileLists, pool \in BOOLEAN :
         NoThreads /\ ConnectList(fileList, pool)
    \/ Disconnect
    \/ BufferCalls
    \/ Receivers
    \/ Seekers

Spec == Init /\ [][Next]_vars

\* the steps of thread i of receiverThread that wait for nothing
ReceiverRuns(i) ==
    /\ i \in 1..Len(receiverThread)
    /\ \/ ReceiverFetch(i)
       \/ ReceiverOpen(i)
       \/ ReceiverSleep(i)
       \/ ReceiverPush(i)

\* the steps of thread j of fileseekThread that wait for nothing
SeekerRuns(j) ==
    /\ j \in 1..Len(fileseekThread)
    /\ \/ SeekerLoop(j)
       \/ SeekerAppend(j)

\* Scheduling: every std::thread and the thread inside disconnect keep
\* running, and a thread waiting for a mutex that is released again and
\* again gets it.  Nothing obliges the consumer to start a call.
Fairness ==
    /\ \A i \in 1..MaxConnects :
         /\ WF_vars(ReceiverRuns(i))
         /\ SF_vars(i \in 1..Len(receiverThread) /\ ReceiverLock(i))
    /\ \A j \in 1..MaxConnects :
         /\ WF_vars(SeekerRuns(j))
         /\ SF_vars(j \in 1..Len(fileseekThread) /\ SeekerLock(j))
    /\ WF_vars(DisconnectSet \/ DisconnectJoinReceiver \/ DisconnectJoinSeeker
                  \/ DisconnectClose)
    /\ WF_vars(ClearEventBuffer)

\* the consumer only connects, sets the limit and disconnects
NextSession ==
    \/ \E src \in Identifiers, conOpt \in ConnectionOptions, pool \in BOOLEAN :
         NoThreads /\ Connect(src, conOpt, pool)
    \/ \E fileList \in FileLists, pool \in BOOLEAN :
         NoThreads /\ ConnectList(fileList, pool)
    \/ \E limit \in BufferLimits : SetBufferLimit(limit)
    \/ Disconnect
    \/ Receivers
    \/ Seekers

FairSessionSpec == Init /\ [][NextSession]_vars /\ Fairness

\* the steps of thread i of receiverThread whose outcome the adapter does
\* not choose: leaving the loop when its test fails, opening the next file,
\* the backpressure sleep and the push
ReceiverRunsOnItsOwn(i) ==
    /\ i \in 1..Len(receiverThread)
    /\ \/ ReceiverFetch(i) /\ receiverThread'[i].pc = "done"
       \/ ReceiverOpen(i)
       \/ ReceiverSleep(i)
       \/ ReceiverPush(i)

\* Scheduling as in Fairness, but nothing is assumed about what
\* f_evt_get_event answers: the worker calls it again and again, and the
\* adapter may go on answering that no event is ready.
FairnessOfThreads ==
    /\ \A i \in 1..MaxConnects :
         /\ WF_vars(ReceiverRunsOnItsOwn(i))
         /\ SF_vars(i \in 1..Len(receiverThread) /\ ReceiverLock(i))
    /\ \A j \in 1..MaxConnects :
         /\ WF_vars(SeekerRuns(j))
         /\ SF_vars(j \in 1..Len(fileseekThread) /\ SeekerLock(j))
    /\ WF_vars(DisconnectSet \/ DisconnectJoinReceiver \/ DisconnectJoinSeeker
                  \/ DisconnectClose)

FairThreadsSpec == Init /\ [][NextSession]_vars /\ FairnessOfThreads

\* numbered recording files: a bare name, the same in a directory, and one
\* whose number is all nines
SeqBare == <<"r","u","n","_","0","0","0","7",".","l","m","d">>
SeqInDir == <<"d","/","r","u","n","_","0","0","0","7",".","l","m","d">>
SeqNines == <<"d","/","r","u","n","_","9","9","9","9",".","l","m","d">>
SeqNames == {SeqBare, SeqInDir, SeqNines}

\* the client right after connect(name, ConnectionOption::file, true) has
\* succeeded on a newly constructed client, for each numbered file
InitSeq ==
    /\ disconnected = FALSE
    /\ noMoreEvents = FALSE
    /\ sizeOfReceivedData = 0
    /\ nEventsInBuffer = 0
    /\ nReceivedEvents = 0
    /\ maxEventBufferSize = DefaultBufferSize
    /\ inputChannel = "open"
    /\ mbsSource \in SeqNames
    /\ filelist = <<mbsSource>>
    /\ currentFileIndex = 0
    /\ eventBuffer = <<>>
    /\ queueMutex = 0
    /\ filelistMutex = 0
    /\ receiverThread = <<NewReceiver>>
    /\ fileseekThread = <<NewSeeker>>
    /\ ctl = "idle"
    /\ clr = "idle"
    /\ dest = <<>>
    /\ nFetched = 0
    /\ nConnects = 1
    /\ pushed = <<>>
    /\ cleared = FALSE
    /\ lastCall = [op |-> "connect", opt |-> "file", ret |-> TRUE,
                   type |-> GETEVT__FILE]
    /\ lastDrain = "none"
    /\ sessionOpen = TRUE
    /\ sessDrained = 0
    /\ sessClean = TRUE
    /\ throttled = FALSE
    /\ exhausted = <<>>
    /\ nFatal = 0

SeqSpec == InitSeq /\ [][NextSession]_vars

\* the consumer calls connect whether or not an earlier session was
\* disconnected
NextAnyOrder ==
    \/ \E src \in Identifiers, conOpt \in ConnectionOptions, pool \in BOOLEAN :
         Connect(src, conOpt, pool)
    \/ \E fileList \in FileLists, pool \in BOOLEAN :
         ConnectList(fileList, pool)
    \/ \E limit \in BufferLimits : SetBufferLimit(limit)
    \/ Disconnect
    \/ Receivers
    \/ Seekers

SpecAnyOrder == Init /\ [][NextAnyOrder]_vars

(***************************************************************************)
(* Claims.                                                                 *)
(***************************************************************************)
ReceiversIdle == \A i \in 1..Len(receiverThread) : receiverThread[i].pc = "loop"

\* C1: as long as clearEventBuffer has not been called, what the consumer
\* has drained so far followed by what is still in the buffer is exactly
\* the sequence of events the worker pushed: every pushed event is drained
\* once, in push order, and the drained events are a prefix of the pushed
\* ones that is all of them once the buffer is empty.
C1_DrainedThenBufferedIsPushed ==
    ~cleared => dest \o eventBuffer = pushed

\* C1 witness: two raw events were pushed, three of their four events are
\* drained and the fourth is still in the buffer.
C1_Witness ==
    /\ ~cleared
    /\ Len(pushed) = 4
    /\ Len(dest) = 3
    /\ Len(eventBuffer) = 1

\* C4: a getEventData call that finds the buffer lock held changes neither
\* the buffer nor the destination nor the lock, and the call can always be
\* taken: it does not wait for the lock.
C4_DrainNeverWaits ==
    /\ [](\A n \in DrainCounts : ENABLED GetEventData(n))
    /\ [][\A n \in DrainCounts :
            (queueMutex # 0 /\ GetEventData(n)) =>
                UNCHANGED <<eventBuffer, dest, nEventsInBuffer, queueMutex>>]_vars

\* C4 witness: a drain has just found the lock held by a worker about to
\* push, with events in the buffer it could otherwise have taken.
C4_Witness ==
    /\ lastDrain = "missed"
    /\ queueMutex > 0
    /\ eventBuffer # <<>>

\* C5: in a session that began with an empty buffer and saw no
\* clearEventBuffer, whenever the buffer lock is free the events-received
\* counter is the number of events drained in the session plus the number
\* of events in the buffer, whatever the buffer limit.
C5_NoEventLost ==
    (queueMutex = 0 /\ sessClean) =>
        nReceivedEvents = sessDrained + Len(eventBuffer)

\* C5 witness: the worker found the buffer above its limit, slept, and has
\* pushed the events of that raw event all the same.
C5_Witness ==
    /\ throttled
    /\ ReceiversIdle
    /\ queueMutex = 0
    /\ sessClean
    /\ Len(eventBuffer) > maxEventBufferSize + 2
    /\ nReceivedEvents = 4

\* C10: a getEventData call that obtains the lock appends to dest the first
\* min(n, size) events of the buffer and leaves the rest in the buffer: the
\* whole buffer when n >= size, nothing when n = 0 or the buffer is empty.
C10_DrainTakesMin ==
    [][\A n \in DrainCounts :
         (queueMutex = 0 /\ GetEventData(n)) =>
            LET k == IF n < Len(eventBuffer) THEN n ELSE Len(eventBuffer)
            IN  /\ dest' = dest \o SubSeq(eventBuffer, 1, k)
                /\ eventBuffer' = SubSeq(eventBuffer, k + 1, Len(eventBuffer))
                /\ Len(dest') = Len(dest) + k
                /\ (n >= Len(eventBuffer) => eventBuffer' = <<>>)
                /\ (n = 0 \/ eventBuffer = <<>>) =>
                       (eventBuffer' = eventBuffer /\ dest' = dest)]_vars

\* C10 witness: a drain asked for at least the whole buffer, which held
\* four events, and got them all.
C10_Witness ==
    /\ lastDrain = "whole"
    /\ eventBuffer = <<>>
    /\ Len(dest) = 4
    /\ sessDrained = 4

\* C8: connect called with an empty file list returns false, starts no
\* worker and no discoverer, and leaves the file list, the counters, the
\* flags, the adapter handle, the source name and the file index as they
\* were.
C8_EmptyListRefused ==
    [][\A pool \in BOOLEAN :
         ConnectList(<<>>, pool) =>
            /\ lastCall'.op = "connectList"
            /\ lastCall'.ret = FALSE
            /\ UNCHANGED <<receiverThread, fileseekThread, filelist,
                           sizeOfReceivedData, nEventsInBuffer, nReceivedEvents,
                           disconnected, noMoreEvents, inputChannel, mbsSource,
                           currentFileIndex, eventBuffer>>]_vars

\* C8 witness: connect with an empty list has just returned false on a
\* client that still has the file list and the counters of an earlier
\* session.
C8_Witness ==
    /\ lastCall.op = "connectList"
    /\ lastCall.type = NoSourceType
    /\ ~lastCall.ret
    /\ filelist # <<>>
    /\ nReceivedEvents > 0
    /\ sizeOfReceivedData > 0

\* the identifier ends in l, m, d, each in either case
EndsWithLmd(src) ==
    /\ Len(src) >= 3
    /\ src[Len(src) - 2] \in {"l", "L"}
    /\ src[Len(src) - 1] \in {"m", "M"}
    /\ src[Len(src)] \in {"d", "D"}

\* C9: connect with the automatic option chooses the file kind exactly when
\* the identifier has at least five characters and ends in "lmd" in any
\* case, the stream kind exactly when it has at least five characters and
\* does not, and for a shorter identifier returns false without opening a
\* source, starting a thread or touching the file list.
C9_AutomaticKind ==
    [][\A src \in Identifiers, pool \in BOOLEAN :
         Connect(src, "automatic", pool) =>
            /\ lastCall'.type = GETEVT__FILE <=> (Len(src) >= 5 /\ EndsWithLmd(src))
            /\ lastCall'.type = GETEVT__STREAM <=> (Len(src) >= 5 /\ ~EndsWithLmd(src))
            /\ Len(src) < 5 =>
                  /\ lastCall'.ret = FALSE
                  /\ UNCHANGED <<inputChannel, mbsSource, disconnected, filelist,
                                 receiverThread, fileseekThread>>]_vars

\* C9 witness: connect with the automatic option was given the name with
\* the upper-case extension, chose the file kind and opened it.
C9_Witness ==
    /\ lastCall.op = "connect"
    /\ lastCall.opt = "automatic"
    /\ lastCall.type = GETEVT__FILE
    /\ lastCall.ret
    /\ filelist = <<NameRun>>
    /\ mbsSource = NameRun
    /\ Len(receiverThread) = 1

\* C3: once disconnect has returned, and until the next connect or
\* disconnect, isConnected() is false, the thread vectors are empty, the
\* adapter handle is null and getEventServerName() is "not connected".
C3_AfterDisconnect ==
    (lastCall.op = "disconnect" /\ ctl = "idle") =>
        /\ ~isConnected
        /\ NoThreads
        /\ inputChannel = "null"
        /\ getEventServerName = NotConnected

\* C6: between the calls of connect and disconnect, isConnected() is true
\* exactly when a connect has opened a source and no disconnect has
\* returned since.
C6_ConnectedIffSession ==
    ctl = "idle" => (isConnected <=> sessionOpen)

\* C2: under fair scheduling every disconnect call that has taken the
\* buffer lock returns.
C2_DisconnectReturns ==
    (ctl = "set") ~> (ctl = "idle")

\* C7: in every state there is at most one thread in receiverThread and at
\* most one in fileseekThread.
C7_AtMostOneOfEach ==
    Len(receiverThread) <= 1 /\ Len(fileseekThread) <= 1

\* C11: when clearEventBuffer returns, the buffer is empty and the snapshot
\* nEventsInBuffer is 0; and while they are, every step that is not a push
\* of a worker leaves them so and adds nothing to the consumer's vector.
C11_EmptyUntilNextPush ==
    [][/\ ClearEventBuffer => (eventBuffer' = <<>> /\ nEventsInBuffer' = 0)
       /\ (/\ eventBuffer = <<>>
           /\ nEventsInBuffer = 0
           /\ ~\E i \in 1..Len(receiverThread) : ReceiverPush(i))
          => (eventBuffer' = <<>> /\ nEventsInBuffer' = 0 /\ dest' = dest)]_vars

\* C11 witness: events were pushed and then cleared; since the clear
\* returned the consumer has drained nothing and the worker waits to push
\* the next raw event.
C11_Witness ==
    /\ cleared
    /\ clr = "idle"
    /\ Len(pushed) = 2
    /\ eventBuffer = <<>>
    /\ nEventsInBuffer = 0
    /\ dest = <<>>
    /\ \E i \in 1..Len(receiverThread) : receiverThread[i].pc = "lock"

\* path is <directory>prefix_N.lmd with N a non-empty run of decimal digits
IsNumbered(path) ==
    LET name == SubSeq(path, RFind(path, "/") + 2, Len(path))
        u == RFind(name, "_")
    IN  /\ u >= 0
        /\ Len(name) - u - 5 >= 1
        /\ SubSeq(name, Len(name) - 3, Len(name)) = <<".","l","m","d">>
        /\ \A k \in (u + 2)..(Len(name) - 4) : IsDigit(name[k])

\* the successor the naming scheme asks for: the directory part of path as
\* it is written (empty for a bare name), the prefix, and N+1 padded with
\* zeros to the width of N, wider when N+1 has more digits
SuccessorOf(path) ==
    LET slash == RFind(path, "/")
        name == SubSeq(path, slash + 2, Len(path))
        u == RFind(name, "_")
        width == Len(name) - u - 5
        n == DigitsValue(SubSeq(name, u + 2, u + 1 + width), width)
        d == ToDecimal(n + 1)
        zeros == [k \in 1..(width - Len(d)) |-> "0"]
    IN  SubSeq(path, 1, slash + 1) \o SubSeq(name, 1, u) \o <<"_">>
          \o zeros \o d \o <<".","l","m","d">>

\* C12: whenever the discoverer finds the successor of a file list whose
\* last entry is named prefix_N.lmd, the path it is about to append is
\* prefix_(N+1).lmd in the same directory, N+1 zero-padded to the width of N.
C12_SuccessorInSameDirectory ==
    [][\A j \in 1..Len(fileseekThread) :
         (/\ SeekerLoop(j)
          /\ fileseekThread'[j].pc = "lock"
          /\ IsNumbered(filelist[Len(filelist)]))
         => fileseekThread'[j].next = SuccessorOf(filelist[Len(filelist)])]_vars

\* C13: at every step that sets noMoreEvents, the sources that have
\* returned end-of-source since the last connect are exactly the entries of
\* the file list, in list order: noMoreEvents is not set while an entry of
\* the current list has not been opened and read to its end.
C13_ExhaustedMeansWholeList ==
    [][(~noMoreEvents /\ noMoreEvents') => exhausted' = filelist']_vars

\* C14: when the file list has an entry after the one the running worker
\* stopped at with noMoreEvents set, and the consumer starts no disconnect,
\* the worker eventually advances to that entry and opens it.
C14_AppendedFileIsOpened ==
    (/\ noMoreEvents /\ Len(filelist) > currentFileIndex + 1
     /\ ctl = "idle" /\ ~disconnected
     /\ \E i \in 1..Len(receiverThread) : receiverThread[i].pc = "loop")
        ~> (\/ \E i \in 1..Len(receiverThread) : receiverThread[i].pc = "open"
            \/ ctl # "idle")

\* C15: a fetch that returns a fatal error ends the worker: the step in
\* which f_evt_get_event answers with a read error leaves the worker that
\* called it outside its loop.
C15_FatalErrorEndsWorker ==
    [][\A i \in 1..Len(receiverThread) :
         (ReceiverFetch(i) /\ nFatal' = nFatal + 1)
             => receiverThread'[i].pc = "done"]_vars

\* C16: the worker reads the file list only under filelistMutex: a step in
\* which a worker takes filelist.size() and the next entry (it advances to
\* the next file or sets noMoreEvents) is taken only while no discoverer
\* holds filelistMutex for its append.
C16_ListReadUnderLock ==
    [][\A i \in 1..Len(receiverThread) :
         (/\ ReceiverFetch(i)
          /\ \/ receiverThread'[i].pc = "open"
             \/ ~noMoreEvents /\ noMoreEvents')
             => filelistMutex = 0]_vars

\* a step of one of the two connect overloads
ConnectCalled ==
    \/ \E src \in Identifiers, conOpt \in ConnectionOptions, pool \in BOOLEAN :
         Connect(src, conOpt, pool)
    \/ \E fileList \in FileLists, pool \in BOOLEAN : ConnectList(fileList, pool)

\* C17: a worker whose openLmdFile of the next file fails leaves its loop
\* in that step; and while every worker has left its loop, a step that is
\* not a connect pushes no event and changes neither sizeOfReceivedData nor
\* nReceivedEvents.
C17_FailedOpenEndsProgress ==
    [][/\ \A i \in 1..Len(receiverThread) :
            (ReceiverOpen(i) /\ inputChannel' = "control")
                => receiverThread'[i].pc = "done"
       /\ (/\ \A i \in 1..Len(receiverThread) : receiverThread[i].pc = "done"
           /\ ~ConnectCalled)
              => UNCHANGED <<pushed, sizeOfReceivedData, nReceivedEvents>>]_vars

\* a worker that pushed an event from the first file, failed to open the
\* next one and returned, before any disconnect
C17_Witness ==
    /\ Len(receiverThread) = 1 /\ receiverThread[1].pc = "done"
    /\ inputChannel = "control" /\ currentFileIndex > 0
    /\ Len(pushed) > 0 /\ nReceivedEvents > 0
    /\ ctl = "idle" /\ ~disconnected

\* C18: only a connect call clears the stop flag: every step that takes
\* disconnected from true to false is a step of connect, never a step of a
\* worker or a discoverer.
C18_OnlyConnectClearsFlag ==
    [][(disconnected /\ ~disconnected') => ConnectCalled]_vars

\* C19: a closed handle is not used again: a worker whose loop test passes
\* calls f_evt_get_event only on a handle that has not been closed, and
\* disconnect calls f_evt_get_close only on a handle that has not been
\* closed.
C19_NoUseAfterClose ==
    [][/\ (\E i \in 1..Len(receiverThread) : ReceiverFetch(i))
            => (inputChannel # "closed" \/ disconnected)
       /\ DisconnectClose => inputChannel # "closed"]_vars

\* C20: a successful connect(mbsSource, conOpt, poolForNextFile) opens the
\* identifier it was given: at the end of a connect step that returns true,
\* the open source (the name getEventServerName reports) is the argument.
C20_ConnectOpensItsArgument ==
    [][\A src \in Identifiers, conOpt \in ConnectionOptions, pool \in BOOLEAN :
         (Connect(src, conOpt, pool) /\ lastCall'.ret) => mbsSource' = src]_vars
====
